---- MODULE Spec2Model ----
(***************************************************************************)
(* A model of alcoholic_jwt (src/src/lib.rs): JWKS::find, token_kid and    *)
(* validate with its helpers public_key_from_jwk, decode_fragment,         *)
(* deserialize_part and validate_jwt_signature.                            *)
(*                                                                         *)
(* Strings are sequences of characters.  A character is one of             *)
(*   <<".">>           the segment separator,                              *)
(*   <<"!">>           a character outside the base64url alphabet,         *)
(*   <<"b64", chunk>>  a run of base64url characters that decodes to the   *)
(*                     byte chunk `chunk`.                                 *)
(* Byte chunks are <<"json", d>> (the text of JSON document d), <<"raw">>  *)
(* (bytes that are no JSON), <<"int", m>> (big-endian integer m) and       *)
(* <<"sig", m, data>> (the RS256 signature of the string data under the    *)
(* private key that belongs to the modulus m).                             *)
(*                                                                         *)
(* The libraries are modelled by what the code relies on: base64 decoding  *)
(* fails exactly on a character outside the alphabet, JSON parsing         *)
(* succeeds exactly on one complete document, a signature verifies exactly *)
(* for the text and the modulus it was made with, and OpenSSL may fail on  *)
(* degenerate key components.  BigNum::from_slice is taken not to fail.    *)
(***************************************************************************)
EXTENDS Naturals, Sequences, FiniteSets

VARIABLES op, token, jwk, validations, pc, steps, public_key, verified,
          decoded, headers, claims, kid_value, result, jwks, kid, found

vars == <<op, token, jwk, validations, pc, steps, public_key, verified,
          decoded, headers, claims, kid_value, result, jwks, kid, found>>

(* ---------------------------- bounds ----------------------------------- *)
MaxSegs == 4
MaxKeys == 3

(* ------------------------- characters, bytes --------------------------- *)
Dot == <<".">>
Bad == <<"!">>
Encode(chunk) == <<"b64", chunk>>

JsonText(d) == <<"json", d>>
RawBytes == <<"raw">>
IntBytes(m) == <<"int", m>>
Sign(m, data) == <<"sig", m, data>>

(* ----------------------------- JSON ------------------------------------ *)
Absent == <<"absent">>
Null == <<"null">>
Str(s) == <<"str", s>>
Num(s) == <<"num", s>>

NoValue == [kid |-> Absent, iss |-> Absent, aud |-> Absent, sub |-> Absent]

\* The JSON documents of the model:
\*   H1  {"kid":"k1"}
\*   P1  {"iss":"X","aud":"Y","sub":"42"}
\*   P2  {"kid":5,"iss":"Z","sub":null}
Docs == {"H1", "P1", "P2"}

DocValue(d) ==
    CASE d = "H1" -> [NoValue EXCEPT !.kid = Str("k1")]
      [] d = "P1" -> [NoValue EXCEPT !.iss = Str("X"), !.aud = Str("Y"), !.sub = Str("42")]
      [] OTHER    -> [NoValue EXCEPT !.kid = Num("5"), !.iss = Str("Z"), !.sub = Null]

(* ------------------------ library collaborators ------------------------ *)
\* base64::decode_config(s, URL_SAFE): fails on any character outside the
\* alphabet (the separator included), else yields the decoded bytes.
DecodeConfig(s) ==
    IF \E i \in 1..Len(s) : s[i][1] # "b64"
    THEN [ok |-> FALSE, bytes |-> <<>>]
    ELSE [ok |-> TRUE, bytes |-> [i \in 1..Len(s) |-> s[i][2]]]

\* serde_json::from_slice::<Value>: exactly one complete JSON document.
IsJson(bytes) == Len(bytes) = 1 /\ bytes[1][1] = "json"

FromSliceValue(bytes) ==
    IF IsJson(bytes)
    THEN [ok |-> TRUE, val |-> DocValue(bytes[1][2])]
    ELSE [ok |-> FALSE, val |-> NoValue]

\* serde_json::from_slice::<KidOnly>: a JSON object whose kid, if present and
\* not null, is a string; other fields are ignored.
FromSliceKidOnly(bytes) ==
    LET v == FromSliceValue(bytes) IN
    IF v.ok /\ v.val.kid[1] \in {"absent", "null", "str"}
    THEN [ok |-> TRUE, kid |-> IF v.val.kid[1] = "str" THEN <<v.val.kid[2]>> ELSE <<>>]
    ELSE [ok |-> FALSE, kid |-> <<>>]

\* BigNum::from_slice: the big-endian integer of the bytes.
BigNumFromSlice(bytes) ==
    IF bytes = <<>> THEN "0"
    ELSE IF Len(bytes) = 1 /\ bytes[1][1] = "int" THEN bytes[1][2] ELSE "junk"

\* Component values OpenSSL may reject or fail on.
Degenerate(key) == key.n \in {"0", "junk"} \/ key.e \in {"0", "junk"}

\* Rsa::from_public_components: Ok, or for degenerate components possibly Err.
FromPublicComponents(n, e) ==
    LET key == [n |-> n, e |-> e] IN
    {[ok |-> TRUE, key |-> key]} \cup
    (IF Degenerate(key) THEN {[ok |-> FALSE, key |-> key]} ELSE {})

\* PKey::from_rsa, Verifier::new, Verifier::update: may fault on a degenerate key.
VerifierFaults(key) == IF Degenerate(key) THEN {FALSE, TRUE} ELSE {FALSE}

\* Verifier::verify: true iff sig is the RS256 signature of data under key.
VerifierVerify(key, data, sig) ==
    ~Degenerate(key) /\ sig = <<Sign(key.n, data)>>

(* --------------------------- str::splitn -------------------------------- *)
HasDot(s) == \E i \in 1..Len(s) : s[i] = Dot
FirstDot(s) == CHOOSE i \in 1..Len(s) : s[i] = Dot /\ \A j \in 1..(i-1) : s[j] # Dot
LastDot(s) == CHOOSE i \in 1..Len(s) : s[i] = Dot /\ \A j \in (i+1)..Len(s) : s[j] # Dot

RECURSIVE Splitn(_, _)
\* s.splitn(n, '.') for n >= 1: at most n items, the last holds the remainder.
Splitn(n, s) ==
    IF n <= 1 \/ ~HasDot(s) THEN <<s>>
    ELSE <<SubSeq(s, 1, FirstDot(s) - 1)>> \o Splitn(n - 1, SubSeq(s, FirstDot(s) + 1, Len(s)))

RECURSIVE Rsplitn(_, _)
\* s.rsplitn(n, '.') for n >= 1: items from the back, the last holds the remainder.
Rsplitn(n, s) ==
    IF n <= 1 \/ ~HasDot(s) THEN <<s>>
    ELSE <<SubSeq(s, LastDot(s) + 1, Len(s))>> \o Rsplitn(n - 1, SubSeq(s, 1, LastDot(s) - 1))

(* ------------------------------ errors ---------------------------------- *)
\* Mutation: a library error reported as InvalidJWK.
FromErrorStackAsInvalidJWK == "InvalidJWK"

\* impl From<ErrorStack> for ValidationError
FromErrorStack == "OpenSSL"
\* impl From<serde_json::Error> for ValidationError
FromJsonError == "JSON"

(* ------------------------- internal functions --------------------------- *)
\* decode_fragment
DecodeFragment(fragment) ==
    LET bytes == DecodeConfig(fragment) IN
    IF ~bytes.ok THEN [err |-> "InvalidJWK", bn |-> "0"]
    ELSE [err |-> "none", bn |-> BigNumFromSlice(bytes.bytes)]

\* The value of public_key while no key has been built.
NoKey == [n |-> "0", e |-> "0"]

\* public_key_from_jwk: the set of possible outcomes.
PublicKeyFromJwk(j) ==
    LET jwk_n == DecodeFragment(j.n)
        jwk_e == DecodeFragment(j.e)
    IN  IF jwk_n.err # "none" THEN {[err |-> jwk_n.err, key |-> NoKey]}
        ELSE IF jwk_e.err # "none" THEN {[err |-> jwk_e.err, key |-> NoKey]}
        ELSE {[err |-> IF r.ok THEN "none" ELSE FromErrorStack,
               key |-> IF r.ok THEN r.key ELSE NoKey] :
                 r \in FromPublicComponents(jwk_n.bn, jwk_e.bn)}

\* deserialize_part::<Value>
DeserializePartValue(part) ==
    LET json == DecodeConfig(part) IN
    IF ~json.ok THEN [err |-> "MalformedJWT", val |-> NoValue]
    ELSE LET v == FromSliceValue(json.bytes) IN
         [err |-> IF v.ok THEN "none" ELSE FromJsonError, val |-> v.val]

\* deserialize_part::<KidOnly>
DeserializePartKidOnly(part) ==
    LET json == DecodeConfig(part) IN
    IF ~json.ok THEN [err |-> "MalformedJWT", kid |-> <<>>]
    ELSE LET v == FromSliceKidOnly(json.bytes) IN
         [err |-> IF v.ok THEN "none" ELSE FromJsonError, kid |-> v.kid]

\* Mutation: the outcome of the verification is not looked at.
MatchVerifyAccepting(b) == "none"

\* validate_jwt_signature, `match verifier.verify(&sig)?`
MatchVerify(b) == IF b THEN "none" ELSE "InvalidSignature"

\* Mutation: the verifier is fed the signature segment instead of the text.
SignedDataIsSignature(token_parts) == token_parts[1]

\* validate_jwt_signature, `let data = token_parts[1]`
SignedData(token_parts) == token_parts[2]

\* validate_jwt_signature: the set of possible outcomes; data is the string
\* handed to the verifier when it accepted.
ValidateJwtSignature(jwt, key) ==
    LET token_parts == Rsplitn(2, jwt)
        Fail(e) == [err |-> e, data |-> <<>>]
    IN  {Fail(FromErrorStack) : f \in VerifierFaults(key) \ {FALSE}} \cup
        (IF Len(token_parts) # 2 THEN {Fail("MalformedJWT")}
         ELSE LET data == SignedData(token_parts)
                  sig == DecodeConfig(token_parts[1])
              IN  IF ~sig.ok THEN {Fail("MalformedJWT")}
                  ELSE {Fail(FromErrorStack) : f \in VerifierFaults(key) \ {FALSE}} \cup
                       (IF Degenerate(key) THEN {Fail("InvalidSignature")}
                        ELSE LET m == MatchVerify(VerifierVerify(key, data, sig.bytes)) IN
                             {[err |-> m, data |-> IF m = "none" THEN <<data>> ELSE <<>>]}))

\* Mutation: the scan keeps the last match.
FindLast(keys, k) ==
    IF \E i \in 1..Len(keys) : keys[i].kid = <<k>>
    THEN CHOOSE i \in 1..Len(keys) :
             keys[i].kid = <<k>> /\ \A j \in (i+1)..Len(keys) : keys[j].kid # <<k>>
    ELSE 0

\* JWKS::find: the index of the JWK found, 0 for None.
Find(keys, k) ==
    IF \E i \in 1..Len(keys) : keys[i].kid = <<k>>
    THEN CHOOSE i \in 1..Len(keys) :
             keys[i].kid = <<k>> /\ \A j \in 1..(i-1) : keys[j].kid # <<k>>
    ELSE 0

\* Mutation: the length of the split is not checked.
TokenKidPartsUnchecked(parts) == Len(parts) >= 1

\* Mutation: the second part is decoded instead of the first.
HeaderPartSecond(parts) == parts[2]

\* token_kid, `if parts.len() != 2`
TokenKidPartsOk(parts) == Len(parts) = 2

\* token_kid, `deserialize_part(parts[0])`
HeaderPart(parts) == parts[1]

\* token_kid: the whole function.
TokenKid(t) ==
    LET parts == Splitn(2, t) IN
    IF ~TokenKidPartsOk(parts) THEN [err |-> "MalformedJWT", kid |-> <<>>]
    ELSE DeserializePartKidOnly(HeaderPart(parts))

\* Mutation: the token is split and decoded before the key is built.
StepAfterParseFirst(step) ==
    CASE step = "start" -> "deserialize"
      [] step = "deserialize" -> "public_key_from_jwk"
      [] step = "public_key_from_jwk" -> "validate_jwt_signature"
      [] OTHER -> "return"

\* validate: the order of its statements.
StepAfter(step) ==
    CASE step = "start" -> "public_key_from_jwk"
      [] step = "public_key_from_jwk" -> "validate_jwt_signature"
      [] step = "validate_jwt_signature" -> "deserialize"
      [] OTHER -> "return"

(* ------------------------------ inputs ---------------------------------- *)
Fragment(m) == <<Encode(IntBytes(m))>>

KeyA == [kid |-> <<"k1">>, n |-> Fragment("nA"), e |-> Fragment("e")]
KeyB == [kid |-> <<"k2">>, n |-> Fragment("nB"), e |-> Fragment("e")]
KeyBadN == [kid |-> <<"k1">>, n |-> <<Bad>>, e |-> Fragment("e")]
KeyA2 == [kid |-> <<>>, n |-> Fragment("nA"), e |-> Fragment("e")]
KeyBadE == [kid |-> <<>>, n |-> Fragment("nA"), e |-> <<Bad>>]
KeyZero == [kid |-> <<"k2">>, n |-> Fragment("0"), e |-> Fragment("e")]
JWKs == {KeyA, KeyB, KeyA2, KeyBadN, KeyBadE, KeyZero}

Issuer(x) == <<"Issuer", x>>
Audience(x) == <<"Audience", x>>
SubjectPresent == <<"SubjectPresent">>
ValidationLists ==
    {<<>>, <<Issuer("X")>>, <<SubjectPresent>>,
     <<Issuer("X"), Audience("Y"), SubjectPresent>>}

\* Segments: empty, or one run of characters, valid base64url or not.
SegChars == {Bad, Encode(RawBytes)} \cup {Encode(JsonText(d)) : d \in Docs}
Segs == {<<>>} \cup {<<c>> : c \in SegChars}
Signers == {"nA", "nB"}

RECURSIVE Join(_)
Join(segs) ==
    IF Len(segs) = 0 THEN <<>>
    ELSE IF Len(segs) = 1 THEN segs[1]
    ELSE segs[1] \o <<Dot>> \o Join(Tail(segs))

\* Tokens of up to MaxSegs segments that carry no signature.
PlainTokens ==
    UNION {{Join(b) : b \in [1..k -> Segs]} : k \in 1..MaxSegs}

\* Tokens whose last segment is a signature by one of the signers over the
\* text before it, or over that text with another second segment.
SignedTokens ==
    UNION {{Join(b) \o <<Dot, Encode(Sign(m, Join(IF k >= 2 THEN [b EXCEPT ![2] = o] ELSE b)))>> :
              b \in [1..k -> Segs], m \in Signers, o \in Segs} : k \in 1..(MaxSegs - 1)}

Tokens == PlainTokens \cup SignedTokens

Kids == {"k1", "k2", "k3"}
KeyLists == UNION {[1..k -> JWKs] : k \in 0..MaxKeys}

(* --------------------------- state machine ------------------------------ *)

InitCall(entry) ==
    /\ pc = entry
    /\ steps = <<>>
    /\ public_key = NoKey
    /\ verified = <<>>
    /\ decoded = <<>>
    /\ headers = NoValue
    /\ claims = NoValue
    /\ kid_value = <<>>
    /\ result = "none"
    /\ found = 0

Init ==
    /\ token \in Tokens
    /\ \/ /\ op = "validate" /\ jwk \in JWKs /\ validations \in ValidationLists
          /\ InitCall(StepAfter("start"))
       \/ /\ op = "token_kid" /\ jwk = KeyA /\ validations = <<>>
          /\ InitCall("token_kid")
    /\ jwks = <<>>
    /\ kid = "k1"

Finish(r) ==
    /\ result' = r
    /\ pc' = "done"

Continue(step) ==
    IF StepAfter(step) = "return" THEN Finish("Ok")
    ELSE pc' = StepAfter(step) /\ result' = result

\* validate: `let public_key = public_key_from_jwk(&jwk)?`
ValidateKey ==
    /\ op = "validate" /\ pc = "public_key_from_jwk"
    /\ steps' = Append(steps, pc)
    /\ \E r \in PublicKeyFromJwk(jwk) :
          /\ public_key' = r.key
          /\ IF r.err # "none" THEN Finish(r.err) ELSE Continue(pc)
    /\ UNCHANGED <<op, token, jwk, validations, verified, decoded, headers,
                   claims, kid_value, jwks, kid, found>>

\* validate: `validate_jwt_signature(&jwt, public_key)?`
ValidateSignature ==
    /\ op = "validate" /\ pc = "validate_jwt_signature"
    /\ steps' = Append(steps, pc)
    /\ \E r \in ValidateJwtSignature(token, public_key) :
          /\ verified' = r.data
          /\ IF r.err # "none" THEN Finish(r.err) ELSE Continue(pc)
    /\ UNCHANGED <<op, token, jwk, validations, public_key, decoded, headers,
                   claims, kid_value, jwks, kid, found>>

\* validate: the split into three parts, the two deserialize_part calls and
\* the construction of the ValidJWT.
ValidateDeserialize ==
    /\ op = "validate" /\ pc = "deserialize"
    /\ steps' = Append(steps, pc)
    /\ LET parts == Splitn(3, token) IN
       IF Len(parts) # 3
       THEN Finish("MalformedJWT") /\ UNCHANGED <<decoded, headers, claims>>
       ELSE LET h == DeserializePartValue(parts[1])
                c == DeserializePartValue(parts[2])
            IN  IF h.err # "none"
                THEN /\ Finish(h.err)
                     /\ decoded' = <<parts[1]>>
                     /\ UNCHANGED <<headers, claims>>
                ELSE IF c.err # "none"
                THEN /\ Finish(c.err)
                     /\ decoded' = <<parts[1], parts[2]>>
                     /\ UNCHANGED <<headers, claims>>
                ELSE /\ Continue(pc)
                     /\ decoded' = <<parts[1], parts[2]>>
                     /\ headers' = h.val
                     /\ claims' = c.val
    /\ UNCHANGED <<op, token, jwk, validations, public_key, verified,
                   kid_value, jwks, kid, found>>

\* token_kid
TokenKidCall ==
    /\ op = "token_kid" /\ pc = "token_kid"
    /\ steps' = Append(steps, pc)
    /\ LET r == TokenKid(token) IN
          /\ kid_value' = r.kid
          /\ Finish(IF r.err # "none" THEN r.err ELSE "Ok")
    /\ UNCHANGED <<op, token, jwk, validations, public_key, verified, decoded,
                   headers, claims, jwks, kid, found>>

Next == ValidateKey \/ ValidateSignature \/ ValidateDeserialize \/ TokenKidCall

Spec == Init /\ [][Next]_vars

\* JWKS::find over every key list and query.
InitFind ==
    /\ op = "find"
    /\ token = <<>>
    /\ jwk = KeyA
    /\ validations = <<>>
    /\ jwks \in KeyLists
    /\ kid \in Kids
    /\ InitCall("find")

FindCall ==
    /\ op = "find" /\ pc = "find"
    /\ steps' = Append(steps, pc)
    /\ found' = Find(jwks, kid)
    /\ Finish("Ok")
    /\ UNCHANGED <<op, token, jwk, validations, public_key, verified, decoded,
                   headers, claims, kid_value, jwks, kid>>

NextFind == FindCall

SpecFind == InitFind /\ [][NextFind]_vars

(* ======================= properties of the claims ======================= *)
Done == pc = "done"
Validated == op = "validate" /\ Done
NumDots(t) == Cardinality({i \in 1..Len(t) : t[i] = Dot})
DocChar(c) == c \in {Encode(JsonText(d)) : d \in Docs}
ValueOf(c) == DocValue(c[2][2])

\* A JWK whose n and e decode to sound components, and its modulus.
Usable(j) == j \in {KeyA, KeyB, KeyA2}
Undecodable(j) == j \in {KeyBadN, KeyBadE}
Modulus(j) == j.n[1][2][2]

\* The last segment of t is the signature, under the key of j, of the text
\* before the last separator.
SignatureHolds(t, j) ==
    /\ Usable(j)
    /\ \E i \in 1..Len(t) :
          /\ t[i] = Dot
          /\ \A k \in (i+1)..Len(t) : t[k] # Dot
          /\ SubSeq(t, i + 1, Len(t)) = <<Encode(Sign(Modulus(j), SubSeq(t, 1, i - 1)))>>

\* What a directive asks of a claim set.
Passes(d, c) ==
    CASE d[1] = "Issuer" -> c.iss = Str(d[2])
      [] d[1] = "Audience" -> c.aud = Str(d[2])
      [] OTHER -> c.sub[1] \notin {"absent", "null"}
AllPass(vs, c) == \A i \in 1..Len(vs) : Passes(vs[i], c)

\* header.payload.signature with a JSON header and a JSON payload.
ThreeSegments(t) ==
    /\ Len(t) = 5 /\ t[2] = Dot /\ t[4] = Dot
    /\ t[1] # Dot /\ t[3] # Dot /\ t[5][1] = "b64"
Decodable(t) == ThreeSegments(t) /\ DocChar(t[1]) /\ DocChar(t[3])

\* C1 (as claimed): validate returns Ok only if the signature verifies under
\* the supplied JWK and every directive of the list holds of the claims.
C1_OkOnlyIfVerifiedAndChecked ==
    (Validated /\ result = "Ok") =>
        (SignatureHolds(token, jwk) /\ AllPass(validations, claims))

\* C2 (as claimed): for a token whose signature verifies and whose header and
\* claims decode, validate fails with InvalidClaims iff some directive does
\* not pass, and succeeds iff every directive passes.
C2_InvalidClaimsIffDirectiveFails ==
    (Validated /\ Decodable(token) /\ SignatureHolds(token, jwk)) =>
        /\ result = "InvalidClaims" <=> ~AllPass(validations, ValueOf(token[3]))
        /\ result = "Ok" <=> AllPass(validations, ValueOf(token[3]))

\* C3: header and claims are decoded only after the signature check has
\* succeeded; a token whose signature does not verify never ends in an error
\* of decoding header or claims, nor in InvalidClaims.
C3_SignatureBeforeDecoding ==
    /\ (op = "validate" /\ \E i \in 1..Len(steps) : steps[i] = "deserialize") =>
          /\ SignatureHolds(token, jwk)
          /\ \E i, k \in 1..Len(steps) :
                i < k /\ steps[i] = "validate_jwt_signature" /\ steps[k] = "deserialize"
    /\ (op = "validate" /\ decoded # <<>>) => SignatureHolds(token, jwk)
    /\ (Validated /\ ~SignatureHolds(token, jwk)) =>
          /\ result \notin {"Ok", "JSON", "InvalidClaims"}
          /\ result = "MalformedJWT" => steps[Len(steps)] = "validate_jwt_signature"

\* C3 witness: a token with an undecodable header and a signature that does
\* not verify is rejected for its signature.
C3_Witness ==
    /\ Validated /\ ThreeSegments(token) /\ token[1] = Bad
    /\ Usable(jwk) /\ ~SignatureHolds(token, jwk)
    /\ result = "InvalidSignature"

\* header.payload.signature issued by a signer over a JSON header and a JSON
\* payload; the payload segment may have been replaced afterwards.
Issued(t) ==
    /\ ThreeSegments(t) /\ DocChar(t[1])
    /\ t[5][2][1] = "sig"
    /\ \E o \in {c \in SegChars : DocChar(c)} : t[5][2][3] = <<t[1], Dot, o>>
Signer(t) == t[5][2][2]
Unmodified(t) == t[5][2][3] = SubSeq(t, 1, 3)

\* C4: for a token signed with key A and a usable key B, validate returns
\* InvalidSignature when the key material of B differs from that of A or the
\* payload segment was modified after signing, and succeeds when the material is
\* equal and the signed text unmodified.
C4_WrongKeyOrTamperedIsInvalidSignature ==
    (Validated /\ Issued(token) /\ Usable(jwk)) =>
        /\ (Modulus(jwk) # Signer(token) \/ ~Unmodified(token)) => result = "InvalidSignature"
        /\ (Modulus(jwk) = Signer(token) /\ Unmodified(token)) => result = "Ok"

\* C4 witness: the right key, a payload replaced by other well-formed JSON.
C4_Witness ==
    /\ Validated /\ Issued(token) /\ Usable(jwk)
    /\ Modulus(jwk) = Signer(token) /\ ~Unmodified(token) /\ DocChar(token[3])
    /\ result = "InvalidSignature"

\* C5 (as claimed): for tokens with fewer than two separators, validate with a
\* usable JWK and token_kid return MalformedJWT.
C5_FewerThanTwoDotsMalformed ==
    (Done /\ op \in {"validate", "token_kid"} /\ NumDots(token) < 2
          /\ (op = "validate" => Usable(jwk))) =>
        result = "MalformedJWT"

\* C5 (amended): for tokens with no separator, validate with a usable JWK and
\* token_kid return MalformedJWT; for tokens with exactly one separator,
\* validate returns MalformedJWT or InvalidSignature.
C5_NoDotMalformed ==
    (Done /\ op \in {"validate", "token_kid"} /\ (op = "validate" => Usable(jwk))) =>
        /\ NumDots(token) = 0 => result = "MalformedJWT"
        /\ (NumDots(token) = 1 /\ op = "validate") =>
              result \in {"MalformedJWT", "InvalidSignature"}

\* C5 witness: token_kid rejects a lone, decodable header segment.
C5_Witness ==
    /\ Done /\ op = "token_kid" /\ token = <<Encode(JsonText("H1"))>>
    /\ result = "MalformedJWT"

\* C6: find returns the first JWK in list order whose kid is present and equal
\* to the query, None when there is none, and leaves the JWKS unchanged.
C6_FindFirstMatch ==
    /\ [](Done =>
            /\ found \in 0..Len(jwks)
            /\ found # 0 => /\ jwks[found].kid = <<kid>>
                            /\ \A j \in 1..(found - 1) : jwks[j].kid # <<kid>>
            /\ found = 0 => \A j \in 1..Len(jwks) : jwks[j].kid # <<kid>>)
    /\ [][jwks' = jwks /\ kid' = kid]_vars

\* C6 witness: two different JWKs carry the queried kid, the earlier is found.
C6_Witness ==
    /\ Done /\ op = "find" /\ found # 0
    /\ \E j \in (found + 1)..Len(jwks) :
          jwks[j].kid = <<kid>> /\ jwks[j] # jwks[found]

\* The header segment of a token with a separator.
HeaderSegment(t) == SubSeq(t, 1, (CHOOSE i \in 1..Len(t) :
                                    t[i] = Dot /\ \A j \in 1..(i-1) : t[j] # Dot) - 1)

\* C7 (as claimed): token_kid fails with MalformedJWT whenever the header
\* segment fails to decode, as base64url or as JSON of the expected shape;
\* returns None for a header without kid and Some(kid) for a string kid; the
\* result depends on the header segment alone.
C7_HeaderFailureIsMalformed ==
    (Done /\ op = "token_kid" /\ NumDots(token) >= 1) =>
        LET h == HeaderSegment(token) IN
        CASE h = <<Encode(JsonText("H1"))>> -> result = "Ok" /\ kid_value = <<"k1">>
          [] h = <<Encode(JsonText("P1"))>> -> result = "Ok" /\ kid_value = <<>>
          [] OTHER -> result = "MalformedJWT"

\* C7 (amended): token_kid fails with MalformedJWT when the header segment is
\* no base64url and with the JSON error when its bytes are no JSON of the
\* expected shape; returns None for a header without kid and Some(kid) for a
\* string kid; the result depends on the header segment alone.
C7_HeaderOnly ==
    (Done /\ op = "token_kid" /\ NumDots(token) >= 1) =>
        LET h == HeaderSegment(token) IN
        CASE h = <<Encode(JsonText("H1"))>> -> result = "Ok" /\ kid_value = <<"k1">>
          [] h = <<Encode(JsonText("P1"))>> -> result = "Ok" /\ kid_value = <<>>
          [] h = <<Bad>> -> result = "MalformedJWT"
          [] OTHER -> result = "JSON"

\* C7 witness: a header without kid before an undecodable payload yields None.
C7_Witness ==
    /\ Done /\ op = "token_kid" /\ Len(token) >= 3
    /\ token[1] = Encode(JsonText("P1")) /\ token[2] = Dot /\ token[3] = Bad
    /\ result = "Ok" /\ kid_value = <<>>

\* C8 (as claimed): a token that cannot be split into three segments makes
\* validate return MalformedJWT whatever the JWK; InvalidJWK is reported only
\* for tokens that passed the split.
C8_ParseBeforeKey ==
    Validated =>
        /\ NumDots(token) < 2 => result = "MalformedJWT"
        /\ result = "InvalidJWK" => NumDots(token) >= 2

\* C8 (amended): key reconstruction is the first step of validate, before any
\* parsing of the token: a JWK whose n or e fails to decode makes validate
\* return InvalidJWK whatever the token; MalformedJWT is reported only after
\* the key was reconstructed.
C8_KeyBeforeParse ==
    Validated =>
        /\ Undecodable(jwk) => result = "InvalidJWK" /\ steps = <<"public_key_from_jwk">>
        /\ result = "MalformedJWT" =>
              /\ Len(steps) >= 2 /\ steps[1] = "public_key_from_jwk"
              /\ ~Undecodable(jwk)

\* C8 witness: an unsplittable token and a JWK whose n does not decode.
C8_Witness ==
    /\ Validated /\ jwk = KeyBadN /\ NumDots(token) = 0
    /\ result = "InvalidJWK"

\* C9 (as claimed): the text whose signature validate checks is the header
\* segment, a separator and the payload segment, the two segments it then
\* decodes; a token with more than two separators is rejected with
\* MalformedJWT.
C9_VerifiedTextIsDecodedText ==
    /\ (Validated /\ result = "Ok") =>
          /\ NumDots(token) = 2
          /\ verified = <<decoded[1] \o <<Dot>> \o decoded[2]>>
    /\ (Validated /\ Usable(jwk) /\ NumDots(token) > 2) => result = "MalformedJWT"

\* C10 (as claimed): key reconstruction fails with InvalidJWK and no other
\* error, both when n or e fails to decode and when the library rejects the
\* component values; validate returns that error.
C10_KeyFailureIsInvalidJWK ==
    (Validated /\ steps = <<"public_key_from_jwk">>) => result = "InvalidJWK"

\* C10 (amended): key reconstruction fails with InvalidJWK when n or e fails to
\* base64url-decode, and with the OpenSSL error when the library rejects the
\* decoded component values; validate returns either error unchanged.
C10_KeyFailureKinds ==
    (Validated /\ steps = <<"public_key_from_jwk">>) =>
        /\ public_key = NoKey
        /\ Undecodable(jwk) => result = "InvalidJWK"
        /\ ~Undecodable(jwk) => result = "OpenSSL" /\ jwk = KeyZero

\* C10 witness: the library rejects a zero modulus.
C10_Witness ==
    /\ Validated /\ jwk = KeyZero /\ steps = <<"public_key_from_jwk">>
    /\ result = "OpenSSL"

====
